---------------------------- MODULE Spec2Model ----------------------------
(***************************************************************************)
(* Model of the checkpointed task-chain engine of release-tools:           *)
(* FiniteStateMachine (automata.py) driven by a caller such as the         *)
(* __main__ block of tasks.py.                                             *)
(*                                                                         *)
(* Python strings are sequences of one-character strings, the shelve store *)
(* is a function whose DOMAIN is the set of keys present, a TaskRef is a   *)
(* position 1..NumTasks in an abstract chain (under SpecChain: the number  *)
(* of a task class of tasks.py) and Python's None is NONE.                 *)
(***************************************************************************)
EXTENDS Integers, Sequences, FiniteSets, TLC

VARIABLES
    db,               \* the shelve store ~/.python_release: key -> value
    pc,               \* position of the process that uses the engine
    current_task,     \* FiniteStateMachine.current_task
    completed_tasks,  \* FiniteStateMachine.completed_tasks (in memory)
    environ,          \* os.environ["GPG_KEY_FOR_RELEASE"] of the process
    result,           \* the local `result` of run(): what the last body returned
    exc,              \* how the latest process ended
    \* What the latest invocation did (history, not program state):
    args,             \* arguments of the construction, until run() is entered
    opened,           \* how the constructor found the store
    recorded,         \* the store's completed_tasks as the constructor found it
    loaded,           \* value returned by load_checkpoint(), if called
    supplied,         \* starting task the caller gave: first_state, or assigned
    executed,         \* task bodies started in this invocation, in order
    nextCalled,       \* tasks whose next() was called in this invocation
    \* What happened since the store was last empty (history):
    returned,         \* tasks whose body has returned
    raised,           \* whether a task body has raised
    killed,           \* whether a process has been killed
    interrupted       \* the task whose body raised or was killed last, until
                      \* a body returns

engine == <<current_task, completed_tasks, environ, result>>
invocation == <<opened, recorded, loaded, supplied, executed, nextCalled>>
logical == <<returned, raised, killed, interrupted>>

vars == <<db, pc, engine, exc, args, invocation, logical>>

---------------------------------------------------------------------------
(* Bounds *)

NumTasks == 3
MaxHistory == 4
MaxRestart == 1

---------------------------------------------------------------------------
(* Values *)

NONE == 0
UNSET == <<>>
TaskRef == 1..NumTasks
FIRST_TASK == 1

Digits == {"0", "1", "2", "3", "4", "5", "6", "7", "8", "9"}

Releases ==
    { <<"3", ".", "1", "0", ".", "1">>,
      <<"3", ".", "1", "0", ".", "1", "a", "2">>,
      <<"1", "2", ".", "0", ".", "7", ".", "r", "c">>,
      <<"3", ".", "1", "0">>,
      <<"3", ".", ".", "1">>,
      <<"v", "3", ".", "1", "0", ".", "1">> }

Repos == {"/repo/a", "/repo/b"}
GpgKeys == {<<"A", "B", "1", "2">>}

\* What a task body returns, written as Python writes the value: None
\* (shutil.which finds nothing, or no return statement), a path, True.
Results == {"None", "'/usr/bin/git'", "True"}
NoResult == "unbound"

MASTER == <<"m", "a", "s", "t", "e", "r">>
DOT == <<".">>

---------------------------------------------------------------------------
(* The store *)

NoArgs == [release |-> <<>>, git_repo |-> ""]

EmptyStore == [k \in {} |-> NONE]

Get(d, k, default) == IF k \in DOMAIN d THEN d[k] ELSE default

Put(d, k, v) == [x \in (DOMAIN d) \cup {k} |-> IF x = k THEN v ELSE d[x]]

Has(d, k) == k \in DOMAIN d

\* Truth value of db.get(k) for the keys that hold strings or paths.
TruthyStr(d, k) == Has(d, k) /\ d[k] # <<>>
TruthyFinished(d) == Has(d, "finished") /\ d["finished"] = TRUE

PathOf(p) == [path |-> p]

---------------------------------------------------------------------------
(* RELEASE_REGEXP *)

RECURSIVE DigitRun(_, _)
DigitRun(s, i) ==
    IF i <= Len(s) /\ s[i] \in Digits THEN 1 + DigitRun(s, i + 1) ELSE 0

Slice(s, i, n) == SubSeq(s, i, i + n - 1)

NoMatch == [matched |-> FALSE]

Match(s) ==
    LET n1 == DigitRun(s, 1)
        d1 == 1 + n1
        n2 == DigitRun(s, d1 + 1)
        d2 == d1 + 1 + n2
        n3 == DigitRun(s, d2 + 1)
        e  == d2 + 1 + n3
        e2 == IF e <= Len(s) /\ s[e] = "." THEN e + 1 ELSE e
    IN  IF /\ n1 >= 1
           /\ d1 <= Len(s) /\ s[d1] = "."
           /\ n2 >= 1
           /\ d2 <= Len(s) /\ s[d2] = "."
           /\ n3 >= 1
        THEN [matched |-> TRUE,
              groupdict |-> [major |-> Slice(s, 1, n1),
                             minor |-> Slice(s, d1 + 1, n2),
                             patch |-> Slice(s, d2 + 1, n3),
                             extra |-> SubSeq(s, e2, Len(s))]]
        ELSE NoMatch

Normalized(m) ==
    m.groupdict.major \o DOT \o m.groupdict.minor \o DOT \o m.groupdict.patch

Branch(m) ==
    IF "extra" \notin DOMAIN m.groupdict THEN Normalized(m) ELSE MASTER

---------------------------------------------------------------------------
(* FiniteStateMachine.__init__ *)

\* Opened without the reopening in mode "n" of lines 22-23.
OpenedNoReset(d) == Put(d, "finished", FALSE)

Opened(d) == IF ~TruthyFinished(d) THEN Put(d, "finished", FALSE) ELSE EmptyStore

SeedRepo(d, git_repo) ==
    IF ~Has(d, "git_repo") THEN Put(d, "git_repo", PathOf(git_repo)) ELSE d

\* SeedRelease without the tests of lines 38, 40 and 42.
SeedReleaseOverwrites(d, release, m) ==
    Put(Put(Put(d, "release", release), "normalized_release", Normalized(m)),
        "release_branch", Branch(m))

SeedRelease(d, release, m) ==
    LET d1 == IF ~TruthyStr(d, "release") THEN Put(d, "release", release) ELSE d
        d2 == IF ~TruthyStr(d1, "normalized_release")
              THEN Put(d1, "normalized_release", Normalized(m)) ELSE d1
        d3 == IF ~TruthyStr(d2, "release_branch")
              THEN Put(d2, "release_branch", Branch(m)) ELSE d2
    IN  d3

Init ==
    /\ db = EmptyStore
    /\ pc = "none"
    /\ current_task = NONE
    /\ completed_tasks = <<>>
    /\ environ = UNSET
    /\ result = NoResult
    /\ exc = "none"
    /\ args = NoArgs
    /\ opened = "none"
    /\ recorded = <<>>
    /\ loaded = NONE
    /\ supplied = NONE
    /\ executed = <<>>
    /\ nextCalled = <<>>
    /\ returned = {}
    /\ raised = FALSE
    /\ killed = FALSE
    /\ interrupted = NONE

\* Lines 32-35 raise on a release that does not match, before line 36 is
\* reached: the constructor ends there and no engine object exists.
Construct(release, git_repo, first_state) ==
    LET d1 == Opened(db)
        d2 == SeedRepo(d1, git_repo)
        m  == Match(release)
        reset == TruthyFinished(db)
    IN  /\ pc = "none"
        /\ args' = [release |-> release, git_repo |-> git_repo]
        /\ opened' = IF reset THEN "reset"
                      ELSE IF db = EmptyStore THEN "created" ELSE "kept"
        /\ recorded' = Get(d1, "completed_tasks", <<>>)
        /\ loaded' = NONE
        /\ supplied' = first_state
        /\ executed' = <<>>
        /\ nextCalled' = <<>>
        /\ result' = NoResult
        /\ returned' = IF reset THEN {} ELSE returned
        /\ raised' = IF reset THEN FALSE ELSE raised
        /\ killed' = IF reset THEN FALSE ELSE killed
        /\ interrupted' = IF reset THEN NONE ELSE interrupted
        /\ IF m.matched
           THEN /\ db' = SeedRelease(d2, release, m)
                /\ current_task' = first_state
                /\ completed_tasks' = Get(d1, "completed_tasks", <<>>)
                /\ environ' = IF TruthyStr(d1, "gpg_key")
                               THEN d1["gpg_key"] ELSE UNSET
                /\ pc' = "init"
                /\ exc' = "none"
           ELSE /\ db' = d2
                /\ current_task' = NONE
                /\ completed_tasks' = <<>>
                /\ environ' = UNSET
                /\ pc' = "none"
                /\ exc' = "AttributeError"

---------------------------------------------------------------------------
(* FiniteStateMachine.load_checkpoint and its caller in tasks.py __main__ *)

\* Lines 518-519 resuming at the successor of the checkpointed task.
MainLoadCheckpointSkips ==
    LET cp == Get(db, "last_checkpoint", NONE)
    IN  /\ pc = "init"
        /\ loaded' = cp
        /\ current_task' = IF cp = NONE THEN FIRST_TASK
                            ELSE IF cp < NumTasks THEN cp + 1 ELSE NONE
        /\ pc' = "ready"
        /\ supplied' = IF cp = NONE THEN FIRST_TASK ELSE supplied
        /\ UNCHANGED <<db, completed_tasks, environ, result, exc, args, opened,
                       recorded, executed, nextCalled, logical>>

\* Lines 518-519 of tasks.py: load the checkpoint, else start at check_git.
MainLoadCheckpoint ==
    LET cp == Get(db, "last_checkpoint", NONE)
    IN  /\ pc = "init"
        /\ loaded' = cp
        /\ current_task' = IF cp = NONE THEN FIRST_TASK ELSE cp
        /\ pc' = "ready"
        /\ supplied' = IF cp = NONE THEN FIRST_TASK ELSE supplied
        /\ UNCHANGED <<db, completed_tasks, environ, result, exc, args, opened,
                       recorded, executed, nextCalled, logical>>

\* load_checkpoint() called by a caller that keeps what it returns.
LoadCheckpoint ==
    LET cp == Get(db, "last_checkpoint", NONE)
    IN  /\ pc = "init"
        /\ loaded' = cp
        /\ current_task' = cp
        /\ pc' = "ready"
        /\ UNCHANGED <<db, completed_tasks, environ, result, exc, args, opened,
                       recorded, supplied, executed, nextCalled, logical>>

---------------------------------------------------------------------------
(* FiniteStateMachine.run *)

TaskNext(t) == IF t < NumTasks THEN t + 1 ELSE NONE

\* The caller enters run() from one of the positions in `from`; a caller
\* that has not loaded the checkpoint does so while the history is short.
EnterRun(from) ==
    /\ pc \in from
    /\ pc = "init" => Len(completed_tasks) < MaxRestart
    /\ pc' = "top"
    /\ args' = NoArgs
    /\ UNCHANGED <<db, engine, exc, invocation, logical>>

\* checkpoint(), first write: the completed-task history.
CheckpointTasks ==
    /\ pc = "top"
    /\ current_task # NONE
    /\ db' = Put(db, "completed_tasks", completed_tasks)
    /\ pc' = "ckpt"
    /\ UNCHANGED <<engine, exc, args, invocation, logical>>

\* CheckpointTask of a run() that skips a task its history holds already.
CheckpointTaskSkipsRecorded ==
    /\ pc = "ckpt"
    /\ db' = Put(db, "last_checkpoint", current_task)
    /\ IF current_task \in {completed_tasks[i] : i \in 1..Len(completed_tasks)}
       THEN /\ current_task' = IF current_task < NumTasks
                                  THEN current_task + 1 ELSE NONE
            /\ pc' = "top"
            /\ UNCHANGED executed
       ELSE /\ executed' = Append(executed, current_task)
            /\ pc' = "body"
            /\ UNCHANGED current_task
    /\ UNCHANGED <<completed_tasks, environ, result, exc, args, opened,
                   recorded, loaded, supplied, nextCalled, logical>>

\* checkpoint(), second write: the resume point; then the body starts.
CheckpointTask ==
    /\ pc = "ckpt"
    /\ db' = Put(db, "last_checkpoint", current_task)
    /\ executed' = Append(executed, current_task)
    /\ pc' = "body"
    /\ UNCHANGED <<engine, exc, args, opened, recorded, loaded, supplied,
                   nextCalled, logical>>

\* TaskReturns of a run() that takes a result that is not true for a failure.
TaskReturnsChecked(key, res) ==
    /\ pc = "body"
    /\ result' = res
    /\ db' = IF key = UNSET THEN db ELSE Put(db, "gpg_key", key)
    /\ IF res = "None"
       THEN /\ exc' = "TaskError"
            /\ pc' = "none"
            /\ UNCHANGED <<current_task, completed_tasks, nextCalled,
                           returned, interrupted>>
       ELSE /\ completed_tasks' = Append(completed_tasks, current_task)
            /\ nextCalled' = Append(nextCalled, current_task)
            /\ current_task' = TaskNext(current_task)
            /\ returned' = returned \cup {current_task}
            /\ interrupted' = NONE
            /\ pc' = "top"
            /\ UNCHANGED exc
    /\ UNCHANGED <<environ, args, opened, recorded, loaded, supplied,
                   executed, raised, killed>>

\* TaskReturns with a checkpoint() of the grown history before next().
TaskReturnsPersists(key, res) ==
    /\ pc = "body"
    /\ result' = res
    /\ db' = Put(IF key = UNSET THEN db ELSE Put(db, "gpg_key", key),
                 "completed_tasks", Append(completed_tasks, current_task))
    /\ completed_tasks' = Append(completed_tasks, current_task)
    /\ nextCalled' = Append(nextCalled, current_task)
    /\ current_task' = TaskNext(current_task)
    /\ returned' = returned \cup {current_task}
    /\ interrupted' = NONE
    /\ pc' = "top"
    /\ UNCHANGED <<environ, exc, args, opened, recorded, loaded, supplied,
                   executed, raised, killed>>

\* The body returns res; it may have written the domain key gpg_key.
TaskReturns(key, res) ==
    /\ pc = "body"
    /\ result' = res
    /\ db' = IF key = UNSET THEN db ELSE Put(db, "gpg_key", key)
    /\ completed_tasks' = Append(completed_tasks, current_task)
    /\ nextCalled' = Append(nextCalled, current_task)
    /\ current_task' = TaskNext(current_task)
    /\ returned' = returned \cup {current_task}
    /\ interrupted' = NONE
    /\ pc' = "top"
    /\ UNCHANGED <<environ, exc, args, opened, recorded, loaded, supplied,
                   executed, raised, killed>>

\* The body raises and run() goes on to the successor instead of raising.
TaskRaisesSwallowed ==
    /\ pc = "body"
    /\ interrupted' = current_task
    /\ raised' = TRUE
    /\ exc' = "TaskError"
    /\ current_task' = TaskNext(current_task)
    /\ pc' = "top"
    /\ UNCHANGED <<db, completed_tasks, environ, result, args, invocation,
                   returned, killed>>

\* The body raises: run() re-raises and the process ends.
TaskRaises ==
    /\ pc = "body"
    /\ interrupted' = current_task
    /\ raised' = TRUE
    /\ exc' = "TaskError"
    /\ pc' = "none"
    /\ UNCHANGED <<db, engine, args, invocation, returned, killed>>

\* Finish of a run() that returns without line 82.
FinishUnrecorded ==
    /\ pc = "top"
    /\ current_task = NONE
    /\ exc' = "ok"
    /\ pc' = "none"
    /\ UNCHANGED <<db, engine, args, invocation, logical>>

\* The loop is left with no current task.
Finish ==
    /\ pc = "top"
    /\ current_task = NONE
    /\ db' = Put(db, "finished", TRUE)
    /\ exc' = "ok"
    /\ pc' = "none"
    /\ UNCHANGED <<engine, args, invocation, logical>>

\* The operator kills the process: its memory is gone, the store stays.
Kill ==
    /\ pc # "none"
    /\ Len(completed_tasks) < MaxHistory
    /\ interrupted' = IF pc = "body" THEN current_task ELSE interrupted
    /\ killed' = TRUE
    /\ exc' = "killed"
    /\ pc' = "none"
    /\ current_task' = NONE
    /\ completed_tasks' = <<>>
    /\ environ' = UNSET
    /\ result' = NoResult
    /\ args' = NoArgs
    /\ opened' = "none"
    /\ recorded' = <<>>
    /\ loaded' = NONE
    /\ supplied' = NONE
    /\ executed' = <<>>
    /\ nextCalled' = <<>>
    /\ UNCHANGED <<db, returned, raised>>

RunStep ==
    \/ CheckpointTasks
    \/ CheckpointTask
    \/ \E key \in GpgKeys \cup {UNSET}, res \in Results : TaskReturns(key, res)
    \/ TaskRaises
    \/ Finish

---------------------------------------------------------------------------
(* Spec: the program, tasks.py __main__, which the operator may kill and   *)
(* start again.  SpecEngine: the engine under any caller of its            *)
(* constructor, load_checkpoint() and run().                               *)

Next ==
    \/ \E r \in Releases, g \in Repos : Construct(r, g, NONE)
    \/ MainLoadCheckpoint
    \/ EnterRun({"ready"})
    \/ RunStep
    \/ Kill

Spec == Init /\ [][Next]_vars

NextEngine ==
    \/ \E r \in Releases, g \in Repos, f \in TaskRef \cup {NONE} :
            Construct(r, g, f)
    \/ MainLoadCheckpoint
    \/ LoadCheckpoint
    \/ EnterRun({"init", "ready"})
    \/ RunStep

SpecEngine == Init /\ [][NextEngine]_vars

\* SpecReturns: the program when every task body returns and nobody kills
\* it.  run() is sequential code: once entered it goes on as long as it
\* has a step to take.
RunReturns ==
    \/ CheckpointTasks
    \/ CheckpointTask
    \/ \E key \in GpgKeys \cup {UNSET}, res \in Results : TaskReturns(key, res)
    \/ Finish

NextReturns ==
    \/ \E r \in Releases, g \in Repos : Construct(r, g, NONE)
    \/ MainLoadCheckpoint
    \/ EnterRun({"ready"})
    \/ RunReturns

SpecReturns == Init /\ [][NextReturns]_vars /\ WF_vars(RunReturns)

\* SpecRerun: the program, kills and failures included, with an operator
\* who starts it again with a release that parses, and in which no step on
\* a task is cut short by a kill or a failure for ever.
Rerun ==
    \E r \in Releases, g \in Repos : Match(r).matched /\ Construct(r, g, NONE)

Retried ==
    /\ WF_vars(Rerun)
    /\ SF_vars(MainLoadCheckpoint)
    /\ SF_vars(EnterRun({"ready"}))
    /\ SF_vars(Finish)
    /\ \A t \in TaskRef :
           /\ SF_vars(current_task = t /\ CheckpointTasks)
           /\ SF_vars(current_task = t /\ CheckpointTask)
           /\ SF_vars(current_task = t /\ TaskReturns(UNSET, "None"))

SpecRerun == Init /\ [][Next]_vars /\ Retried

---------------------------------------------------------------------------
(* The task classes of tasks.py, numbered in the order of their            *)
(* definition, and the class each one's next() returns.                    *)

check_buildbots == 1
check_ssh_connection == 2
check_gpg_keys == 3
check_git == 4
check_blurb == 5
check_make == 6
check_autoconf == 7
check_cpython_repo_is_clean == 8
run_blurb_release == 9
check_docs == 10
prepare_pydoc_topics == 11
run_autoconf == 12
check_pyspecific == 13
bump_version == 14
create_tag == 15
build_release_artifacts == 16
test_release_artifacts == 17
upload_files_to_server == 18
place_files_in_download_folder == 19
send_email_to_platform_release_managers == 20
create_release_object_in_db == 21
wait_util_all_files_are_in_folder == 22

TaskClasses ==
    { check_buildbots,
      check_ssh_connection,
      check_gpg_keys,
      check_git,
      check_blurb,
      check_make,
      check_autoconf,
      check_cpython_repo_is_clean,
      run_blurb_release,
      check_docs,
      prepare_pydoc_topics,
      run_autoconf,
      check_pyspecific,
      bump_version,
      create_tag,
      build_release_artifacts,
      test_release_artifacts,
      upload_files_to_server,
      place_files_in_download_folder,
      send_email_to_platform_release_managers,
      create_release_object_in_db,
      wait_util_all_files_are_in_folder }

\* ClassNext with check_cpython_repo_is_clean linked in after check_autoconf.
ClassNextViaClean(c) ==
    CASE c = check_buildbots -> run_blurb_release
      [] c = check_ssh_connection -> check_buildbots
      [] c = check_gpg_keys -> check_ssh_connection
      [] c = check_git -> check_make
      [] c = check_blurb -> check_autoconf
      [] c = check_make -> check_blurb
      [] c = check_autoconf -> check_cpython_repo_is_clean
      [] c = check_cpython_repo_is_clean -> check_gpg_keys
      [] c = run_blurb_release -> check_docs
      [] c = check_docs -> prepare_pydoc_topics
      [] c = prepare_pydoc_topics -> run_autoconf
      [] c = run_autoconf -> check_pyspecific
      [] c = check_pyspecific -> bump_version
      [] c = bump_version -> create_tag
      [] c = create_tag -> build_release_artifacts
      [] c = build_release_artifacts -> test_release_artifacts
      [] c = test_release_artifacts -> upload_files_to_server
      [] c = upload_files_to_server -> place_files_in_download_folder
      [] c = place_files_in_download_folder -> send_email_to_platform_release_managers
      [] c = send_email_to_platform_release_managers -> create_release_object_in_db
      [] c = create_release_object_in_db -> wait_util_all_files_are_in_folder
      [] c = wait_util_all_files_are_in_folder -> NONE

ClassNext(c) ==
    CASE c = check_buildbots -> run_blurb_release
      [] c = check_ssh_connection -> check_buildbots
      [] c = check_gpg_keys -> check_ssh_connection
      [] c = check_git -> check_make
      [] c = check_blurb -> check_autoconf
      [] c = check_make -> check_blurb
      [] c = check_autoconf -> check_gpg_keys
      [] c = check_cpython_repo_is_clean -> NONE
      [] c = run_blurb_release -> check_docs
      [] c = check_docs -> prepare_pydoc_topics
      [] c = prepare_pydoc_topics -> run_autoconf
      [] c = run_autoconf -> check_pyspecific
      [] c = check_pyspecific -> bump_version
      [] c = bump_version -> create_tag
      [] c = create_tag -> build_release_artifacts
      [] c = build_release_artifacts -> test_release_artifacts
      [] c = test_release_artifacts -> upload_files_to_server
      [] c = upload_files_to_server -> place_files_in_download_folder
      [] c = place_files_in_download_folder -> send_email_to_platform_release_managers
      [] c = send_email_to_platform_release_managers -> create_release_object_in_db
      [] c = create_release_object_in_db -> wait_util_all_files_are_in_folder
      [] c = wait_util_all_files_are_in_folder -> NONE

\* run() entered on a fresh store seeded by tasks.py __main__, started at
\* the class the caller gave.
InitChain ==
    LET r == <<"3", ".", "1", "0", ".", "1", "a", "2">>
        g == "/repo/a"
    IN  /\ db = SeedRelease(SeedRepo(Opened(EmptyStore), g), r, Match(r))
        /\ pc = "top"
        /\ current_task \in TaskClasses
        /\ supplied = current_task
        /\ completed_tasks = <<>>
        /\ environ = UNSET
        /\ result = NoResult
        /\ exc = "none"
        /\ args = NoArgs
        /\ opened = "created"
        /\ recorded = <<>>
        /\ loaded = NONE
        /\ executed = <<>>
        /\ nextCalled = <<>>
        /\ returned = {}
        /\ raised = FALSE
        /\ killed = FALSE
        /\ interrupted = NONE

\* The body of a task class returns res and next() gives its successor.
ClassReturns(res) ==
    /\ pc = "body"
    /\ result' = res
    /\ completed_tasks' = Append(completed_tasks, current_task)
    /\ nextCalled' = Append(nextCalled, current_task)
    /\ current_task' = ClassNext(current_task)
    /\ returned' = returned \cup {current_task}
    /\ interrupted' = NONE
    /\ pc' = "top"
    /\ UNCHANGED <<db, environ, exc, args, opened, recorded, loaded, supplied,
                   executed, raised, killed>>

NextChain ==
    \/ CheckpointTasks
    \/ CheckpointTask
    \/ \E res \in Results : ClassReturns(res)
    \/ Finish

SpecChain == InitChain /\ [][NextChain]_vars

---------------------------------------------------------------------------
(* Vocabulary of the claims *)

Range(s) == {s[i] : i \in 1..Len(s)}

Count(t, s) == Cardinality({i \in 1..Len(s) : s[i] = t})

IsPrefix(p, s) == Len(p) <= Len(s) /\ SubSeq(s, 1, Len(p)) = p

StoreTasks == Get(db, "completed_tasks", <<>>)

StoreCheckpoint == Get(db, "last_checkpoint", NONE)

WholeChain == [i \in 1..NumTasks |-> i]

ReleaseChain ==
    << check_git, check_make, check_blurb, check_autoconf, check_gpg_keys,
       check_ssh_connection, check_buildbots, run_blurb_release, check_docs,
       prepare_pydoc_topics, run_autoconf, check_pyspecific, bump_version,
       create_tag, build_release_artifacts, test_release_artifacts,
       upload_files_to_server, place_files_in_download_folder,
       send_email_to_platform_release_managers, create_release_object_in_db,
       wait_util_all_files_are_in_folder >>

\* The tasks reached by following next() from t, in successor order.
RECURSIVE ChainFrom(_)
ChainFrom(t) == IF t = NONE THEN <<>> ELSE <<t>> \o ChainFrom(TaskNext(t))

AllDigits(s, i, j) == i <= j /\ \A x \in i..j : s[x] \in Digits

\* s is <major>.<minor>.<patch> up to position k, the patch not going on.
VersionEndsAt(s, k) ==
    \E i, j \in 1..Len(s) :
        /\ i < j /\ j < k /\ k <= Len(s)
        /\ AllDigits(s, 1, i - 1) /\ s[i] = "."
        /\ AllDigits(s, i + 1, j - 1) /\ s[j] = "."
        /\ AllDigits(s, j + 1, k)
        /\ (k < Len(s) => s[k + 1] \notin Digits)

WellFormed(s) == \E k \in 1..Len(s) : VersionEndsAt(s, k)

VersionEnd(s) == CHOOSE k \in 1..Len(s) : VersionEndsAt(s, k)

VersionOf(s) == SubSeq(s, 1, VersionEnd(s))

SuffixOf(s) == SubSeq(s, VersionEnd(s) + 1, Len(s))

SeedKeys == {"git_repo", "release", "normalized_release", "release_branch"}

EngineKeys == {"finished", "completed_tasks", "last_checkpoint"}

\* The store without its history, and the state that decides which bodies
\* run and what the store ends with.
Ctl(d) == [k \in DOMAIN d \ {"completed_tasks"} |-> d[k]]

control == <<pc, current_task, executed, Ctl(db)>>

\* One step of the program as a function of `control` and of the step's
\* input alone: no completed_tasks, of the engine or of the store, is read.
ControlStep ==
    LET c == Ctl(db)
        cp == Get(c, "last_checkpoint", NONE)
    IN  \/ /\ pc = "none"
           /\ \E r \in Releases, g \in Repos :
                  LET m == Match(r)
                      d == SeedRepo(Opened(c), g)
                  IN  /\ Ctl(db') = Ctl(IF m.matched
                                         THEN SeedRelease(d, r, m) ELSE d)
                      /\ pc' = IF m.matched THEN "init" ELSE "none"
           /\ current_task' = NONE
           /\ executed' = <<>>
        \/ /\ pc = "init" /\ pc' = "ready"
           /\ current_task' = IF cp = NONE THEN FIRST_TASK ELSE cp
           /\ executed' = executed /\ Ctl(db') = c
        \/ /\ pc = "ready" /\ pc' = "top"
           /\ current_task' = current_task
           /\ executed' = executed /\ Ctl(db') = c
        \/ /\ pc = "top" /\ current_task # NONE /\ pc' = "ckpt"
           /\ current_task' = current_task
           /\ executed' = executed /\ Ctl(db') = c
        \/ /\ pc = "ckpt" /\ pc' = "body"
           /\ current_task' = current_task
           /\ executed' = Append(executed, current_task)
           /\ Ctl(db') = Put(c, "last_checkpoint", current_task)
        \/ /\ pc = "body" /\ pc' = "top"
           /\ current_task' = TaskNext(current_task)
           /\ executed' = executed
           /\ \E key \in GpgKeys \cup {UNSET} :
                  Ctl(db') = IF key = UNSET THEN c ELSE Put(c, "gpg_key", key)
        \/ /\ pc = "body" /\ pc' = "none"
           /\ current_task' = current_task
           /\ executed' = executed /\ Ctl(db') = c
        \/ /\ pc = "top" /\ current_task = NONE /\ pc' = "none"
           /\ current_task' = current_task
           /\ executed' = executed /\ Ctl(db') = Put(c, "finished", TRUE)
        \/ /\ pc # "none" /\ pc' = "none"
           /\ current_task' = NONE
           /\ executed' = <<>> /\ Ctl(db') = c

SameAt(d, e, k) == Has(d, k) = Has(e, k) /\ (Has(d, k) => d[k] = e[k])

---------------------------------------------------------------------------
(* C1: when a task body raises, run() exits with last_checkpoint equal to  *)
(* the failed task and the failed task absent from the completed_tasks of  *)
(* the store and of the engine.                                            *)
C1_CheckpointBeforeExecute ==
    exc = "TaskError" =>
        /\ StoreCheckpoint = interrupted
        /\ interrupted \notin Range(StoreTasks)
        /\ interrupted \notin Range(completed_tasks)

(* C2: an engine built on an unfinished store with last_checkpoint = T     *)
(* runs T first, and the entries the store already held stay in            *)
(* completed_tasks once each, in their order, not added again.             *)
C2_ResumeIdempotence ==
    loaded # NONE =>
        /\ executed # <<>> => executed[1] = loaded
        /\ IsPrefix(recorded, StoreTasks)
        /\ \A t \in Range(recorded) : Count(t, StoreTasks) = 1

(* C3: a construction that finds finished = true reopens the store empty: *)
(* no completed_tasks, last_checkpoint or gpg_key of the finished run is   *)
(* left, the seeded keys come from the new arguments, load_checkpoint()    *)
(* returns None and the run starts at the caller's first task.             *)
C3_CompletionFinality ==
    opened = "reset" =>
        /\ recorded = <<>>
        /\ pc = "init" =>
               /\ DOMAIN db = SeedKeys
               /\ db["git_repo"] = PathOf(args.git_repo)
               /\ db["release"] = args.release
               /\ IsPrefix(db["normalized_release"], args.release)
               /\ completed_tasks = <<>>
               /\ environ = UNSET
        /\ exc = "AttributeError" =>
               /\ DOMAIN db = {"git_repo"}
               /\ db["git_repo"] = PathOf(args.git_repo)
        /\ pc = "ready" => loaded = NONE /\ current_task = FIRST_TASK
        /\ executed # <<>> => executed[1] = FIRST_TASK
        /\ Range(StoreTasks) \subseteq Range(nextCalled)
        /\ StoreCheckpoint \in Range(executed) \cup {NONE}

C3_Witness == opened = "reset" /\ pc = "body" /\ executed = <<FIRST_TASK>>

(* C4: when a task failed and the engine was rerun until the chain        *)
(* finished, the store holds finished = true and completed_tasks equal to  *)
(* the whole chain, the terminal task included.                            *)
C4_CompletionRecord ==
    (TruthyFinished(db) /\ raised /\ ~killed) => StoreTasks = WholeChain

(* C5: a well-formed release given on a fresh store seeds                  *)
(* normalized_release with <major>.<minor>.<patch>, and release_branch     *)
(* with the same when there is no suffix and with master otherwise.        *)
C5_VersionDerivation ==
    (pc = "init" /\ opened \in {"created", "reset"}
        /\ WellFormed(args.release)) =>
        /\ db["normalized_release"] = VersionOf(args.release)
        /\ db["release_branch"] = IF SuffixOf(args.release) = <<>>
                                   THEN VersionOf(args.release) ELSE MASTER

(* C6: a construction with a release that is not well formed fails with    *)
(* ValueError and seeds none of git_repo, release, normalized_release and  *)
(* release_branch.                                                         *)
C6_MalformedRejected ==
    [][(pc = "none" /\ ~WellFormed(args'.release)) =>
          /\ exc' = "ValueError"
          /\ \A k \in SeedKeys :
                 Has(db', k) => (Has(db, k) /\ db'[k] = db[k])]_vars

(* C7: a construction on an unfinished store leaves every seeded key that  *)
(* already holds a value as it is, whatever its arguments.                 *)
C7_SeedingIdempotence ==
    [][(pc = "none" /\ ~TruthyFinished(db)) =>
          \A k \in SeedKeys :
              Has(db, k) => (Has(db', k) /\ db'[k] = db[k])]_vars

C7_Witness ==
    /\ pc = "init"
    /\ opened = "kept"
    /\ recorded # <<>>
    /\ db["release"] # args.release
    /\ db["git_repo"] # PathOf(args.git_repo)

(* C8: a task whose body was interrupted is the checkpoint of the store    *)
(* and the first task the next invocation executes; and once finished is   *)
(* true every task of the chain has had its body return.                   *)
C8_AtLeastOnce ==
    /\ (pc = "none" /\ exc \in {"killed", "TaskError"} /\ interrupted # NONE)
           => (StoreCheckpoint = interrupted /\ ~TruthyFinished(db))
    /\ (pc # "none" /\ interrupted # NONE /\ executed # <<>>)
           => executed[1] = interrupted
    /\ TruthyFinished(db) => returned = TaskRef

C8_Witness ==
    /\ killed /\ ~raised
    /\ pc = "body"
    /\ interrupted # NONE
    /\ executed = <<interrupted>>
    /\ interrupted # FIRST_TASK

(* C9: when a task body raises, the process ends with that exception: no   *)
(* further body is executed, next() of the failed task is not called and   *)
(* finished is not set to true.                                            *)
C9_FailureHalts ==
    exc = "TaskError" =>
        /\ pc = "none"
        /\ executed # <<>>
        /\ executed[Len(executed)] = interrupted
        /\ nextCalled = SubSeq(executed, 1, Len(executed) - 1)
        /\ current_task = interrupted
        /\ ~TruthyFinished(db)

C9_Witness == exc = "TaskError" /\ Len(executed) >= 2

(* C10: finished = true is only ever written by a run() in which a         *)
(* terminal task returned: never after a failure, never by a run() that    *)
(* executed no task.                                                       *)
C10_OnlyPathToCompleted ==
    TruthyFinished(db) =>
        /\ exc = "ok"
        /\ nextCalled # <<>>
        /\ nextCalled = executed
        /\ TaskNext(nextCalled[Len(nextCalled)]) = NONE

(* C11: in every state of the store, the states between the two writes of *)
(* checkpoint() and the states after completion included, last_checkpoint  *)
(* is a task that completed_tasks does not record, or it is null; and it   *)
(* is null only before the first checkpoint or after finished = true.      *)
C11_CheckpointInvariant ==
    /\ StoreCheckpoint # NONE => StoreCheckpoint \notin Range(StoreTasks)
    /\ StoreCheckpoint = NONE =>
           (~Has(db, "last_checkpoint") \/ TruthyFinished(db))

(* C12: across task failures, kills at any point and resumes, the          *)
(* completed_tasks of the store never holds the same task twice.           *)
C12_NoDuplicateHistory ==
    \A t \in TaskRef : Count(t, StoreTasks) <= 1

(* C13: when run() is entered on a store without checkpoint its first     *)
(* task is the starting task the caller supplied, as first_state or by     *)
(* assignment after load_checkpoint() returned None; on a store with a     *)
(* checkpoint its first task is the checkpointed one.                      *)
C13_FreshStartPointer ==
    (pc = "top" /\ executed = <<>> /\ nextCalled = <<>>) =>
        current_task = IF StoreCheckpoint # NONE THEN StoreCheckpoint
                       ELSE supplied

(* C14: whenever run() exits because a task body raised, the store holds  *)
(* the key finished with the value false, also in a run that began by      *)
(* resetting a finished store.                                             *)
C14_FinishedFalseOnFailure ==
    exc = "TaskError" => (Has(db, "finished") /\ db["finished"] = FALSE)

(* C15: next() of a task is called only once its run() has returned in    *)
(* the same invocation, once for each execution that returned, and with    *)
(* no store write of the engine between the return and the call.           *)
C15_RunBeforeNext ==
    /\ [](/\ IsPrefix(nextCalled, executed)
          /\ Len(executed) - Len(nextCalled) =
                 IF pc = "body" \/ exc = "TaskError" THEN 1 ELSE 0
          /\ exc = "TaskError" =>
                 Count(interrupted, nextCalled) < Count(interrupted, executed))
    /\ [][/\ (nextCalled' # nextCalled /\ nextCalled' # <<>>) =>
                 /\ pc = "body"
                 /\ executed[Len(executed)] = current_task
                 /\ nextCalled' = Append(nextCalled, current_task)
                 /\ completed_tasks' = Append(completed_tasks, current_task)
                 /\ \A k \in EngineKeys : SameAt(db, db', k)
          /\ (pc = "body" /\ pc' = "top") =>
                 nextCalled' = Append(nextCalled, current_task)]_vars

C15_Witness ==
    /\ pc = "top"
    /\ Len(nextCalled) >= 2
    /\ Has(db, "gpg_key")
    /\ raised

(* C16: completed_tasks does not influence control flow: each step takes  *)
(* the position, the current task, the bodies executed and the store       *)
(* without its history to values that these and the step's input fix, and  *)
(* whether run() can go on does not depend on the history; so engines on   *)
(* stores that differ only in completed_tasks execute the same bodies and  *)
(* end with the same finished and last_checkpoint.                         *)
C16_HistoryNotControl ==
    /\ [](/\ pc = "top" => ENABLED (CheckpointTasks \/ Finish)
          /\ pc = "ckpt" => ENABLED CheckpointTask
          /\ pc = "body" => ENABLED (TaskReturns(UNSET, "None") \/ TaskRaises))
    /\ [][ControlStep \/ UNCHANGED control]_vars

C16_Witness ==
    /\ pc = "body"
    /\ loaded = FIRST_TASK
    /\ recorded = <<FIRST_TASK>>
    /\ executed = <<FIRST_TASK>>

(* C17: when every task body returns, run() started at the first task     *)
(* terminates; it has then executed the tasks reached by following next()  *)
(* from that task, each once and in successor order, and finished is true. *)
C17_Termination ==
    /\ (pc = "top" /\ executed = <<>> /\ current_task = FIRST_TASK)
           ~> (pc = "none" /\ exc = "ok")
    /\ []((pc = "top" /\ executed = <<>>) => current_task = FIRST_TASK)
    /\ []((pc = "none" /\ exc = "ok") =>
              /\ executed = ChainFrom(FIRST_TASK)
              /\ \A t \in TaskRef : Count(t, executed) = 1
              /\ TruthyFinished(db))

C17_Witness ==
    /\ pc = "none" /\ exc = "ok"
    /\ Len(executed) = NumTasks
    /\ TruthyFinished(db)
    /\ opened = "reset"

(* C18: when the operator reruns the program after every failure or kill  *)
(* and every task succeeds in the end, the store reaches finished = true;  *)
(* and no rerun starts again at a task that the store it found records as  *)
(* completed.                                                              *)
C18_EventualCompletion ==
    /\ (exc \in {"TaskError", "killed"}) ~> TruthyFinished(db)
    /\ [](executed # <<>> => executed[1] \notin Range(recorded))

(* C19: a task whose run() returned is recorded as completed and the      *)
(* engine goes on to its next(), whatever the value returned, None         *)
(* included; a run() exits with a task failure only when a body raised.    *)
C19_ReturnValueIgnored ==
    /\ \A res \in Results :
           (result = res /\ pc = "top" /\ nextCalled # <<>>) =>
               LET t == executed[Len(executed)]
               IN  /\ nextCalled = executed
                   /\ completed_tasks # <<>>
                   /\ completed_tasks[Len(completed_tasks)] = t
                   /\ current_task = TaskNext(t)
                   /\ t \in returned
    /\ pc = "body" => Len(nextCalled) = Len(executed) - 1
    /\ exc = "TaskError" => (raised /\ interrupted # NONE)
    /\ (exc = "ok" /\ pc = "none") => nextCalled = executed

C19_Witness ==
    /\ result = "None"
    /\ pc = "top"
    /\ Len(nextCalled) >= 2
    /\ ~raised

(* C20: following next() from check_git visits 21 distinct task classes,  *)
(* each once, in the order of ReleaseChain, the last of which has no       *)
(* successor; check_cpython_repo_is_clean is never executed, checkpointed  *)
(* or recorded in completed_tasks.                                         *)
C20_ReleaseChain ==
    supplied = check_git =>
        /\ IsPrefix(executed, ReleaseChain)
        /\ nextCalled # <<>> =>
               current_task = ClassNext(nextCalled[Len(nextCalled)])
        /\ current_task = NONE =>
               /\ executed = ReleaseChain
               /\ Len(executed) = 21
               /\ Cardinality(Range(executed)) = 21
               /\ executed[21] = wait_util_all_files_are_in_folder
        /\ check_cpython_repo_is_clean \notin
               Range(executed) \cup Range(StoreTasks) \cup Range(completed_tasks)
                   \cup {StoreCheckpoint, current_task}

C20_Witness ==
    /\ supplied = check_git
    /\ pc = "none" /\ exc = "ok"
    /\ Len(executed) = 21
    /\ TruthyFinished(db)

(* C21: in every state of the store after the first checkpoint of a       *)
(* logical run, kills at any point and resumes included, completed_tasks   *)
(* is a prefix of the chain from the starting task, in order and without   *)
(* gaps, and completed_tasks followed by last_checkpoint is one too.       *)
C21_HistoryChainPrefix ==
    Has(db, "last_checkpoint") =>
        /\ IsPrefix(StoreTasks, ChainFrom(FIRST_TASK))
        /\ IsPrefix(Append(StoreTasks, StoreCheckpoint), ChainFrom(FIRST_TASK))

===========================================================================
